---- MODULE Spec2Model ----
(***************************************************************************)
(* Model of src/useUserData.js: the useUserData hook (user / loading /     *)
(* error state), the asynchronous operations it exposes, and the two       *)
(* collaborators it talks to (the auth provider and the two tables         *)
(* 'profiles' and 'meal_logs' of the data service).                        *)
(*                                                                         *)
(* Every async function is cut at its awaits: the part before the await is *)
(* one action, the data service answering the request is one action, and   *)
(* the continuation after the await is one action.                         *)
(***************************************************************************)
EXTENDS Integers, Sequences, FiniteSets, TLC

MAX_FREE_SCANS == 10

\* ---- bounds of the model ------------------------------------------------
MaxTasks == 2    \* async operations in flight at once
MaxCalls == 2    \* invocations of the exposed operations
MaxAuth  == 1    \* auth events delivered to the listener
MaxEffects == 2  \* runs of the effect of lines 48-71

\* ---- values -------------------------------------------------------------
UserIds   == {"u1", "u2"}
Null      == << >>            \* JS null / undefined object
None      == "null"           \* JS null where the other values are strings
NoId      == "undefined"      \* user.id read from an object without id
NaN       == -999999          \* undefined - 1
Slots     == 1..MaxTasks
Idle      == [op |-> "idle"]
Amounts   == {-1, 1}          \* arguments of addCredits
MealItems == {[name |-> "Apple"], [name |-> "Apple", id |-> 99]}
AuthEvents == {"SIGNED_IN", "SIGNED_OUT", "TOKEN_REFRESHED"}

PGRST116      == [code |-> "PGRST116", message |-> "no rows"]
ProfileFailed == [code |-> "500", message |-> "profile query failed"]
MealLogFailed == [code |-> "500", message |-> "meal_logs query failed"]
UpdateFailed  == [code |-> "500", message |-> "update failed"]
InsertFailed  == [code |-> "500", message |-> "insert failed"]

VARIABLES
    user,       \* useState(null): null, or the profile fields plus mealLog
    loading,    \* useState(true)
    error,      \* useState(null): None or the last failure message
    session,    \* auth provider: the signed-in identity, or None
    initPc,     \* initializeUser: "getCurrentUser" while awaiting, then "done"
    profiles,   \* data service: table profiles, id -> row or Null
    meal_logs,  \* data service: table meal_logs, rows in insertion order
    now,        \* wall clock: new Date() is read at strictly increasing instants
    tasks,      \* the async operations in flight, one per slot
    mounted,    \* the component using the hook is mounted
    subscriptions, \* one per run of the effect: is it live, and how often released
    staleInits, \* initializeUser calls of earlier effect runs still awaiting
    nAuth,      \* auth events delivered so far
    nCalls,     \* invocations of the exposed operations so far
    negAdd,     \* history: addCredits was invoked with balance + amount < 0
    ledger,     \* history: credits added and spent, while only addCredits and
                \* useCreditForScan have run since the profile was loaded
    returned    \* what the step just taken handed back to its caller, if anything

vars == <<user, loading, error, session, initPc, profiles, meal_logs, now,
          tasks, mounted, subscriptions, staleInits, nAuth, nCalls, negAdd, ledger, returned>>

\* ---- JS objects -----------------------------------------------------------
Has(o, f) == f \in DOMAIN o

\* { ...a, ...b }
Spread(a, b) ==
    [f \in (DOMAIN a) \cup (DOMAIN b) |-> IF f \in DOMAIN b THEN b[f] ELSE a[f]]

\* delete o.f
Delete(o, f) == [g \in (DOMAIN o) \ {f} |-> o[g]]

\* user.id
IdOf(u) == IF Has(u, "id") THEN u.id ELSE NoId

\* user.is_premium as a condition
IsPremium(u) == Has(u, "is_premium") /\ u.is_premium

\* user.credits > 0   (undefined > 0 is false)
CreditsPositive(u) == Has(u, "credits") /\ u.credits > 0

\* user.credits < 0 in place of user.credits <= 0
CreditsNegative(u) == Has(u, "credits") /\ u.credits < 0

\* user.credits <= 0  (undefined <= 0 is false)
CreditsNotPositive(u) == Has(u, "credits") /\ u.credits <= 0

\* user.credits || 0
CreditsOrZero(u) == IF Has(u, "credits") THEN u.credits ELSE 0

\* user.track_calories_usage || 0
UsageOrZero(u) == IF Has(u, "track_calories_usage") THEN u.track_calories_usage ELSE 0

\* <= MAX_FREE_SCANS in place of < MAX_FREE_SCANS
UsageAtMostCap(u) == Has(u, "track_calories_usage") /\ u.track_calories_usage <= MAX_FREE_SCANS

\* user.track_calories_usage < MAX_FREE_SCANS  (undefined < 10 is false)
UsageBelowCap(u) == Has(u, "track_calories_usage") /\ u.track_calories_usage < MAX_FREE_SCANS

\* prevUser.mealLog || []
MealLogOrEmpty(u) == IF Has(u, "mealLog") THEN u.mealLog ELSE << >>

Max(a, b) == IF a >= b THEN a ELSE b

\* ---- derived entitlement flags ----------------------------------------------
\* remainingFreeScans without Math.max(0, ...)
remainingFreeScans_NoClamp ==
    IF user # Null THEN MAX_FREE_SCANS - UsageOrZero(user) ELSE 0

remainingFreeScans ==
    IF user # Null THEN Max(0, MAX_FREE_SCANS - UsageOrZero(user)) ELSE 0

canUseForFree ==
    IF user # Null
    THEN ~IsPremium(user) /\ CreditsOrZero(user) = 0 /\ remainingFreeScans > 0
    ELSE FALSE

\* canUseWithCredits without the premium check
canUseWithCredits_NoPremiumCheck ==
    IF user # Null THEN CreditsOrZero(user) > 0 ELSE FALSE

canUseWithCredits ==
    IF user # Null THEN ~IsPremium(user) /\ CreditsOrZero(user) > 0 ELSE FALSE

canUseAsPremium ==
    IF user # Null THEN IsPremium(user) ELSE FALSE

\* ---- async operations in flight ---------------------------------------------
\* A fetch task carries two history fields: soPending (SIGNED_OUT was handled
\* while it was in flight, and no SIGNED_IN since) and isolated (no other
\* handler has run since it started).
\* ---- task pool ------------------------------------------------------------
FreeSlots == {s \in Slots : tasks[s] = Idle}

\* a new async operation takes the lowest free slot
NewSlot == CHOOSE s \in FreeSlots : \A r \in FreeSlots : s <= r

NoTaskInFlight == FreeSlots = Slots /\ initPc = "done" /\ staleInits = 0

\* any other handler running while a fetch is in flight ends its isolation
Disturb(ts) ==
    [s \in Slots |-> IF ts[s].op = "fetch" THEN [ts[s] EXCEPT !.isolated = FALSE]
                     ELSE ts[s]]

\* ---- data service -----------------------------------------------------------
IsSortedDesc(q) ==
    \A i, j \in 1..Len(q) : i < j => q[i].scanned_at >= q[j].scanned_at

RowsOf(uid) == {i \in 1..Len(meal_logs) : meal_logs[i].user_id = uid}

\* .from('meal_logs').select('*').eq('user_id', uid).order('scanned_at', desc):
\* every order of the matching rows that is descending in scanned_at
MealLogQuery(uid) ==
    LET idx == RowsOf(uid)
        n   == Cardinality(idx)
    IN  {q \in [1..n -> {meal_logs[i] : i \in idx}] :
            /\ \E p \in [1..n -> idx] :
                  /\ \A a, b \in 1..n : a # b => p[a] # p[b]
                  /\ \A a \in 1..n : q[a] = meal_logs[p[a]]
            /\ IsSortedDesc(q)}

\* what an operation hands back to its caller
Return(name, value, record) == [op |-> name, ret |-> value, data |-> record]

\* the step returned to no caller
NoReturn == Return("none", "none", Null)

\* line 60: supabase.auth.onAuthStateChange(...) hands back a new subscription
Subscribe(subs) == Append(subs, [live |-> TRUE, unsubscribed |-> 0])

\* a cleanup that releases nothing
Cleanup_NoUnsubscribe(subs) == subs

\* lines 68-70: the cleanup releases the subscription of its own effect run
Cleanup(subs) ==
    [subs EXCEPT ![Len(subs)] = [live |-> FALSE, unsubscribed |-> @.unsubscribed + 1]]

LiveSubscriptions == {k \in 1..Len(subscriptions) : subscriptions[k].live}

\* The ledger of addCredits (line 100) and useCreditForScan (line 106): the
\* amounts passed to addCredits and the number of times useCreditForScan
\* returned true. It is void once an update has failed or anything else that
\* writes the profile has run (a further fetch, an auth event, another mutation).
InitialCredits == 0
Ledger0 == [ok |-> TRUE, added |-> 0, spent |-> 0]
Void    == [ok |-> FALSE, added |-> 0, spent |-> 0]
Credit(l, amount) == IF l.ok THEN [l EXCEPT !.added = @ + amount] ELSE l
Spend(l) == IF l.ok THEN [l EXCEPT !.spent = @ + 1] ELSE l

Init ==
    /\ user = Null
    /\ loading = TRUE
    /\ error = None
    /\ session \in UserIds \cup {None}
    /\ initPc = "getCurrentUser"
    /\ profiles = [i \in UserIds |->
                     IF i = "u1"
                     THEN [id |-> "u1", is_premium |-> FALSE, credits |-> InitialCredits,
                           track_calories_usage |-> MAX_FREE_SCANS - 1, updated_at |-> 0]
                     ELSE Null]
    /\ meal_logs = << >>
    /\ now = 1
    /\ tasks = [s \in Slots |-> Idle]
    /\ mounted = TRUE
    /\ subscriptions = Subscribe(<< >>)
    /\ staleInits = 0
    /\ nAuth = 0
    /\ nCalls = 0
    /\ negAdd = FALSE
    /\ ledger = Ledger0
    /\ returned = NoReturn


\* ---- fetchUserProfile (lines 12-46) ----------------------------------------
\* lines 13-20: setLoading(true); setError(null); the profile query is sent.
\* The task pool with the new fetch in it.
StartFetch(ts, userId, alone) ==
    [Disturb(ts) EXCEPT ![NewSlot] =
        [op |-> "fetch", pc |-> "profile", uid |-> userId, resp |-> Null,
         profile |-> Null, soPending |-> FALSE, isolated |-> alone]]

\* Invoked by a consumer to reload the profile of the signed-in identity.
fetchUserProfile(userId) ==
    /\ mounted
    /\ userId = session
    /\ FreeSlots # {}
    /\ nCalls < MaxCalls
    /\ nCalls' = nCalls + 1
    /\ loading' = TRUE
    /\ error' = None
    /\ tasks' = StartFetch(tasks, userId, NoTaskInFlight)
    /\ returned' = NoReturn
    /\ ledger' = Void
    /\ UNCHANGED <<user, session, initPc, profiles, meal_logs, now, mounted, subscriptions, staleInits, nAuth, negAdd>>

\* the data service answers .from('profiles').select('*').eq('id', userId).single()
ProfileAnswers(uid) ==
    {IF uid \in DOMAIN profiles /\ profiles[uid] # Null
     THEN [data |-> profiles[uid], error |-> Null]
     ELSE [data |-> Null, error |-> PGRST116],
     [data |-> Null, error |-> ProfileFailed]}

ServeProfileQuery(s) ==
    /\ tasks[s].op = "fetch" /\ tasks[s].pc = "profile"
    /\ \E r \in ProfileAnswers(tasks[s].uid) :
          tasks' = [tasks EXCEPT ![s].resp = r, ![s].pc = "profileResp"]
    /\ returned' = NoReturn
    /\ UNCHANGED <<user, loading, error, session, initPc, profiles, meal_logs, now,
                   mounted, subscriptions, staleInits, nAuth, nCalls, negAdd, ledger>>

\* the catch block without the finally: loading is left as it was
FetchCatch_NoFinally(s, err) ==
    /\ error' = err.message
    /\ user' = Null
    /\ tasks' = [tasks EXCEPT ![s] = Idle]
    /\ returned' = Return("fetchUserProfile", "undefined", Null)
    /\ UNCHANGED loading

\* lines 39-45: catch (err) { setError(err.message); setUser(null) } finally
FetchCatch(s, err) ==
    /\ error' = err.message
    /\ user' = Null
    /\ loading' = FALSE
    /\ tasks' = [tasks EXCEPT ![s] = Idle]
    /\ returned' = Return("fetchUserProfile", "undefined", Null)

\* no error code is taken for the 'no rows' condition
IsNoRows_Never(err) == FALSE

\* line 22: profileError.code !== 'PGRST116', negated
IsNoRows(err) == err.code = "PGRST116"

\* lines 22-38, up to the second await
FetchAfterProfile(s) ==
    /\ tasks[s].op = "fetch" /\ tasks[s].pc = "profileResp"
    /\ LET profile      == tasks[s].resp.data
           profileError == tasks[s].resp.error
       IN  IF profileError # Null /\ ~IsNoRows(profileError)
           THEN FetchCatch(s, profileError)
           ELSE IF profile # Null
           THEN /\ tasks' = [tasks EXCEPT ![s].pc = "meals", ![s].profile = profile,
                                          ![s].resp = Null]
                /\ returned' = NoReturn
                /\ UNCHANGED <<user, loading, error>>
           ELSE /\ user' = Null
                /\ loading' = FALSE
                /\ tasks' = [tasks EXCEPT ![s] = Idle]
                /\ returned' = Return("fetchUserProfile", "undefined", Null)
                /\ UNCHANGED error
    /\ UNCHANGED <<session, initPc, profiles, meal_logs, now, mounted, subscriptions, staleInits, nAuth, nCalls, negAdd, ledger>>

\* the data service answers the meal_logs query of lines 27-31
ServeMealLogQuery(s) ==
    /\ tasks[s].op = "fetch" /\ tasks[s].pc = "meals"
    /\ \E r \in {[data |-> q, error |-> Null] : q \in MealLogQuery(tasks[s].uid)}
                \cup {[data |-> Null, error |-> MealLogFailed]} :
          tasks' = [tasks EXCEPT ![s].resp = r, ![s].pc = "mealsResp"]
    /\ returned' = NoReturn
    /\ UNCHANGED <<user, loading, error, session, initPc, profiles, meal_logs, now,
                   mounted, subscriptions, staleInits, nAuth, nCalls, negAdd, ledger>>

\* lines 33-45, after the second await
FetchAfterMealLog(s) ==
    /\ tasks[s].op = "fetch" /\ tasks[s].pc = "mealsResp"
    /\ LET mealLog      == tasks[s].resp.data
           mealLogError == tasks[s].resp.error
       IN  IF mealLogError # Null
           THEN FetchCatch(s, mealLogError)
           ELSE /\ user' = Spread(tasks[s].profile, [mealLog |-> mealLog])
                /\ loading' = FALSE
                /\ tasks' = [tasks EXCEPT ![s] = Idle]
                /\ returned' = Return("fetchUserProfile", "undefined", Null)
                /\ UNCHANGED error
    /\ UNCHANGED <<session, initPc, profiles, meal_logs, now, mounted, subscriptions, staleInits, nAuth, nCalls, negAdd, ledger>>

\* ---- useEffect (lines 48-71) ------------------------------------------------
\* lines 50-55: getCurrentUser() resolves, for the initializeUser of the current
\* effect run (stale = FALSE) or of an earlier run (stale = TRUE)
initializeUser(stale) ==
    /\ IF stale
       THEN staleInits > 0 /\ staleInits' = staleInits - 1 /\ UNCHANGED initPc
       ELSE initPc = "getCurrentUser" /\ initPc' = "done" /\ UNCHANGED staleInits
    /\ IF session # None
       THEN /\ FreeSlots # {}
            /\ loading' = TRUE
            /\ error' = None
            /\ tasks' = StartFetch(tasks, session,
                                   FreeSlots = Slots /\ initPc' = "done" /\ staleInits' = 0)
       ELSE /\ loading' = FALSE
            /\ tasks' = Disturb(tasks)
            /\ UNCHANGED error
    /\ returned' = NoReturn
    /\ UNCHANGED <<user, session, profiles, meal_logs, now, mounted, subscriptions,
                   nAuth, nCalls, negAdd, ledger>>

\* The effect runs again (lines 48-71): the cleanup of the previous run (lines
\* 68-70), then initializeUser() and a new subscription. Its only dependency,
\* fetchUserProfile, is a useCallback with no dependencies and never changes, so
\* React re-runs the effect only synchronously after mounting (StrictMode),
\* before any await has resolved or any event was delivered.
rerunEffect ==
    /\ mounted
    /\ Len(subscriptions) < MaxEffects
    /\ initPc = "getCurrentUser" /\ staleInits = Len(subscriptions) - 1
    /\ FreeSlots = Slots /\ nAuth = 0 /\ nCalls = 0
    /\ subscriptions' = Subscribe(Cleanup(subscriptions))
    /\ staleInits' = staleInits + (IF initPc = "getCurrentUser" THEN 1 ELSE 0)
    /\ initPc' = "getCurrentUser"
    /\ returned' = NoReturn
    /\ ledger' = Void
    /\ UNCHANGED <<user, loading, error, session, profiles, meal_logs, now, tasks,
                   mounted, nAuth, nCalls, negAdd>>

\* the component unmounts: the cleanup of the last effect run (lines 68-70)
unmount ==
    /\ mounted
    /\ mounted' = FALSE
    /\ subscriptions' = Cleanup(subscriptions)
    /\ returned' = NoReturn
    /\ UNCHANGED <<user, loading, error, session, initPc, profiles, meal_logs, now,
                   tasks, staleInits, nAuth, nCalls, negAdd, ledger>>

\* a fetch in flight when SIGNED_OUT is handled is marked; SIGNED_IN clears the marks
MarkSignedOut(ts, mark) ==
    [s \in Slots |-> IF ts[s].op = "fetch" THEN [ts[s] EXCEPT !.soPending = mark]
                     ELSE ts[s]]

\* the listener fetching on every event that carries a session user
onAuthStateChange_AnyEventFetches(event, sessionUser) ==
    /\ LiveSubscriptions # {}
    /\ nAuth < MaxAuth
    /\ nAuth' = nAuth + 1
    /\ event = "SIGNED_OUT" => sessionUser = None
    /\ event = "TOKEN_REFRESHED" => sessionUser = session
    /\ session' = IF event = "SIGNED_OUT" THEN None
                  ELSE IF event = "SIGNED_IN" /\ sessionUser # None THEN sessionUser
                  ELSE session
    /\ IF sessionUser # None
       THEN /\ FreeSlots # {}
            /\ loading' = TRUE
            /\ error' = None
            /\ tasks' = StartFetch(MarkSignedOut(tasks, FALSE), sessionUser, NoTaskInFlight)
            /\ UNCHANGED user
       ELSE IF event = "SIGNED_OUT"
       THEN /\ user' = Null
            /\ tasks' = MarkSignedOut(Disturb(tasks), TRUE)
            /\ UNCHANGED <<loading, error>>
       ELSE UNCHANGED <<user, loading, error, tasks>>
    /\ returned' = NoReturn
    /\ ledger' = IF tasks' # tasks \/ user' # user THEN Void ELSE ledger
    /\ UNCHANGED <<initPc, profiles, meal_logs, now, mounted, subscriptions,
                   staleInits, nCalls, negAdd>>

\* lines 60-66: the listener; sessionUser is session?.user?.id
onAuthStateChange(event, sessionUser) ==
    /\ LiveSubscriptions # {}
    /\ nAuth < MaxAuth
    /\ nAuth' = nAuth + 1
    /\ event = "SIGNED_OUT" => sessionUser = None
    /\ event = "TOKEN_REFRESHED" => sessionUser = session
    /\ session' = IF event = "SIGNED_OUT" THEN None
                  ELSE IF event = "SIGNED_IN" /\ sessionUser # None THEN sessionUser
                  ELSE session
    /\ IF event = "SIGNED_IN" /\ sessionUser # None
       THEN /\ FreeSlots # {}
            /\ loading' = TRUE
            /\ error' = None
            /\ tasks' = StartFetch(MarkSignedOut(tasks, FALSE), sessionUser, NoTaskInFlight)
            /\ UNCHANGED user
       ELSE IF event = "SIGNED_OUT"
       THEN /\ user' = Null
            /\ tasks' = MarkSignedOut(Disturb(tasks), TRUE)
            /\ UNCHANGED <<loading, error>>
       ELSE UNCHANGED <<user, loading, error, tasks>>
    /\ returned' = NoReturn
    /\ ledger' = IF tasks' # tasks \/ user' # user THEN Void ELSE ledger
    /\ UNCHANGED <<initPc, profiles, meal_logs, now, mounted, subscriptions,
                   staleInits, nCalls, negAdd>>

\* ---- updateProfile (lines 73-89) -------------------------------------------
\* lines 75-80: the update is sent, with updated_at: new Date()
updateProfile(caller, userId, updates) ==
    /\ mounted
    /\ FreeSlots # {}
    /\ nCalls < MaxCalls
    /\ nCalls' = nCalls + 1
    /\ tasks' = [Disturb(tasks) EXCEPT ![NewSlot] =
                    [op |-> "update", pc |-> "req", caller |-> caller, uid |-> userId,
                     updates |-> Spread(updates, [updated_at |-> now]), resp |-> Null]]
    /\ now' = now + 1
    /\ returned' = NoReturn
    /\ UNCHANGED <<user, loading, error, session, initPc, profiles, meal_logs,
                   mounted, subscriptions, staleInits, nAuth>>

\* the data service answers .update(...).eq('id', userId).select().single()
ServeUpdate(s) ==
    /\ tasks[s].op = "update" /\ tasks[s].pc = "req"
    /\ LET uid == tasks[s].uid
           row == Spread(profiles[uid], tasks[s].updates)
       IN  \/ /\ uid \in DOMAIN profiles /\ profiles[uid] # Null
              /\ profiles' = [profiles EXCEPT ![uid] = row]
              /\ tasks' = [tasks EXCEPT ![s].pc = "resp",
                                        ![s].resp = [data |-> row, error |-> Null]]
           \/ /\ ~(uid \in DOMAIN profiles /\ profiles[uid] # Null)
              /\ tasks' = [tasks EXCEPT ![s].pc = "resp",
                                        ![s].resp = [data |-> Null, error |-> PGRST116]]
              /\ UNCHANGED profiles
           \/ /\ tasks' = [tasks EXCEPT ![s].pc = "resp",
                                        ![s].resp = [data |-> Null, error |-> UpdateFailed]]
              /\ UNCHANGED profiles
    /\ returned' = NoReturn
    /\ ledger' = IF tasks'[s].resp.error # Null THEN Void ELSE ledger
    /\ UNCHANGED <<user, loading, error, session, initPc, meal_logs, now, mounted, subscriptions, staleInits, nAuth, nCalls,
                   negAdd>>

\* useCreditForScan reporting the outcome of the update
CallerResult_ChecksOutcome(caller, ok) ==
    IF caller = "useCreditForScan" THEN (IF ok THEN "true" ELSE "false") ELSE "undefined"

\* what the caller of updateProfile returns once updateProfile has returned
\* (line 106: return true, whether or not the update went through)
CallerResult(caller, ok) == IF caller = "useCreditForScan" THEN "true" ELSE "undefined"

\* lines 84-88: catch (err) { setError(err.message); return null }
UpdateCatch(s, err) ==
    /\ error' = err.message
    /\ returned' = Return(tasks[s].caller, CallerResult(tasks[s].caller, FALSE), Null)
    /\ UNCHANGED <<user, loading>>

\* updateProfile merging the other way round: { ...data, ...prevUser }
UpdateReturn_LocalWins(s) ==
    /\ tasks[s].op = "update" /\ tasks[s].pc = "resp"
    /\ LET data == tasks[s].resp.data
           err  == tasks[s].resp.error
       IN  IF err # Null
           THEN UpdateCatch(s, err)
           ELSE /\ user' = Spread(data, user)
                /\ returned' = Return(tasks[s].caller, CallerResult(tasks[s].caller, TRUE), data)
                /\ UNCHANGED <<error, loading>>
    /\ tasks' = [tasks EXCEPT ![s] = Idle]
    /\ ledger' = IF returned'.ret = "true" THEN Spend(ledger) ELSE ledger
    /\ UNCHANGED <<session, initPc, profiles, meal_logs, now, mounted, subscriptions,
                   staleInits, nAuth, nCalls, negAdd>>

\* lines 81-88, and the return of the operation that awaited updateProfile
UpdateReturn(s) ==
    /\ tasks[s].op = "update" /\ tasks[s].pc = "resp"
    /\ LET data == tasks[s].resp.data
           err  == tasks[s].resp.error
       IN  IF err # Null
           THEN UpdateCatch(s, err)
           ELSE /\ user' = Spread(user, data)
                /\ returned' = Return(tasks[s].caller, CallerResult(tasks[s].caller, TRUE), data)
                /\ UNCHANGED <<error, loading>>
    /\ tasks' = [tasks EXCEPT ![s] = Idle]
    /\ ledger' = IF returned'.ret = "true" THEN Spend(ledger) ELSE ledger
    /\ UNCHANGED <<session, initPc, profiles, meal_logs, now, mounted, subscriptions, staleInits, nAuth, nCalls, negAdd>>

\* an operation that returns without awaiting anything
ReturnNow(name, value) ==
    /\ mounted
    /\ nCalls < MaxCalls
    /\ nCalls' = nCalls + 1
    /\ returned' = Return(name, value, Null)
    /\ UNCHANGED <<user, loading, error, session, initPc, profiles, meal_logs, now,
                   tasks, mounted, subscriptions, staleInits, nAuth, negAdd, ledger>>

\* ---- entitlement operations (lines 91-112) ---------------------------------
incrementTrackCaloriesUsage ==
    IF user = Null \/ IsPremium(user) \/ CreditsPositive(user)
    THEN ReturnNow("incrementTrackCaloriesUsage", "undefined")
    ELSE IF UsageBelowCap(user)
    THEN /\ updateProfile("incrementTrackCaloriesUsage", IdOf(user),
                          [track_calories_usage |-> user.track_calories_usage + 1])
         /\ ledger' = Void
         /\ UNCHANGED negAdd
    ELSE ReturnNow("incrementTrackCaloriesUsage", "undefined")

addCredits(amount) ==
    IF user = Null
    THEN ReturnNow("addCredits", "undefined")
    ELSE /\ updateProfile("addCredits", IdOf(user), [credits |-> CreditsOrZero(user) + amount])
         /\ negAdd' = (negAdd \/ CreditsOrZero(user) + amount < 0)
         /\ ledger' = Credit(ledger, amount)

\* useCreditForScan sending the balance it read, not the balance minus one
useCreditForScan_NoDecrement ==
    IF user = Null \/ CreditsNotPositive(user)
    THEN ReturnNow("useCreditForScan", "false")
    ELSE /\ updateProfile("useCreditForScan", IdOf(user),
                          [credits |-> IF Has(user, "credits") THEN user.credits ELSE NaN])
         /\ UNCHANGED <<negAdd, ledger>>

useCreditForScan ==
    IF user = Null \/ CreditsNotPositive(user)
    THEN ReturnNow("useCreditForScan", "false")
    ELSE /\ updateProfile("useCreditForScan", IdOf(user),
                          [credits |-> IF Has(user, "credits") THEN user.credits - 1 ELSE NaN])
         /\ UNCHANGED <<negAdd, ledger>>

setPremium(isPremiumStatus) ==
    IF user = Null
    THEN ReturnNow("setPremium", "undefined")
    ELSE /\ updateProfile("setPremium", IdOf(user), [is_premium |-> isPremiumStatus])
         /\ ledger' = Void
         /\ UNCHANGED negAdd

\* ---- addMealToLog (lines 114-140) ------------------------------------------
\* lines 115-128: the entry is built and the insert is sent
addMealToLog(mealItem) ==
    IF user = Null
    THEN ReturnNow("addMealToLog", "undefined")
    ELSE LET mealToAdd == Delete(Spread(mealItem, [user_id |-> IdOf(user),
                                                    scanned_at |-> now]), "id")
         IN  /\ mounted
             /\ FreeSlots # {}
             /\ nCalls < MaxCalls
             /\ nCalls' = nCalls + 1
             /\ tasks' = [Disturb(tasks) EXCEPT ![NewSlot] =
                            [op |-> "addMeal", pc |-> "req", entry |-> mealToAdd,
                             resp |-> Null]]
             /\ now' = now + 1
             /\ returned' = NoReturn
             /\ UNCHANGED <<user, loading, error, session, initPc, profiles, meal_logs,
                            mounted, subscriptions, staleInits, nAuth, negAdd, ledger>>

\* the data service answers .insert(mealToAdd).select().single(); it assigns the id
ServeInsert(s) ==
    /\ tasks[s].op = "addMeal" /\ tasks[s].pc = "req"
    /\ LET row == Spread(tasks[s].entry, [id |-> Len(meal_logs) + 1])
       IN  \/ /\ meal_logs' = Append(meal_logs, row)
              /\ tasks' = [tasks EXCEPT ![s].pc = "resp",
                                        ![s].resp = [data |-> row, error |-> Null]]
           \/ /\ tasks' = [tasks EXCEPT ![s].pc = "resp",
                                        ![s].resp = [data |-> Null, error |-> InsertFailed]]
              /\ UNCHANGED meal_logs
    /\ returned' = NoReturn
    /\ UNCHANGED <<user, loading, error, session, initPc, profiles, now, mounted, subscriptions, staleInits, nAuth, nCalls,
                   negAdd, ledger>>

\* the catch block of addMealToLog clearing user as fetchUserProfile's does
AddMealCatch_ClearsUser(s, err) ==
    /\ error' = err.message
    /\ user' = Null
    /\ returned' = Return("addMealToLog", "null", Null)
    /\ UNCHANGED loading

\* lines 135-139: catch (err) { setError(err.message); return null }
AddMealCatch(s, err) ==
    /\ error' = err.message
    /\ returned' = Return("addMealToLog", "null", Null)
    /\ UNCHANGED <<user, loading>>

\* addMealToLog clearing a previous error when the insert succeeded
AddMealReturn_ClearsError(s) ==
    /\ tasks[s].op = "addMeal" /\ tasks[s].pc = "resp"
    /\ LET data == tasks[s].resp.data
           err  == tasks[s].resp.error
       IN  IF err # Null
           THEN AddMealCatch(s, err) /\ UNCHANGED <<mounted, subscriptions>>
           ELSE IF user = Null
           THEN /\ mounted' = FALSE
                /\ subscriptions' = IF mounted THEN Cleanup(subscriptions) ELSE subscriptions
                /\ returned' = Return("addMealToLog", "data", data)
                /\ UNCHANGED <<user, error, loading>>
           ELSE /\ user' = Spread(user, [mealLog |-> <<data>> \o MealLogOrEmpty(user)])
                /\ returned' = Return("addMealToLog", "data", data)
                /\ error' = None
                /\ UNCHANGED <<loading, mounted, subscriptions>>
    /\ tasks' = [tasks EXCEPT ![s] = Idle]
    /\ UNCHANGED <<session, initPc, profiles, meal_logs, now, staleInits, nAuth, nCalls, negAdd, ledger>>

\* lines 129-139. The updater of lines 130-133 reads prevUser.mealLog: when
\* prevUser is null it throws a TypeError, which React raises while rendering
\* (outside the try of line 116), and the component is taken down with its
\* effect cleaned up; the operation has returned data by then.
AddMealReturn(s) ==
    /\ tasks[s].op = "addMeal" /\ tasks[s].pc = "resp"
    /\ LET data == tasks[s].resp.data
           err  == tasks[s].resp.error
       IN  IF err # Null
           THEN AddMealCatch(s, err) /\ UNCHANGED <<mounted, subscriptions>>
           ELSE IF user = Null
           THEN /\ mounted' = FALSE
                /\ subscriptions' = IF mounted THEN Cleanup(subscriptions) ELSE subscriptions
                /\ returned' = Return("addMealToLog", "data", data)
                /\ UNCHANGED <<user, error, loading>>
           ELSE /\ user' = Spread(user, [mealLog |-> <<data>> \o MealLogOrEmpty(user)])
                /\ returned' = Return("addMealToLog", "data", data)
                /\ UNCHANGED <<error, loading, mounted, subscriptions>>
    /\ tasks' = [tasks EXCEPT ![s] = Idle]
    /\ UNCHANGED <<session, initPc, profiles, meal_logs, now, staleInits, nAuth, nCalls, negAdd, ledger>>

Next ==
    \/ \E stale \in BOOLEAN : initializeUser(stale)
    \/ rerunEffect
    \/ unmount
    \/ \E e \in AuthEvents, u \in UserIds \cup {None} : onAuthStateChange(e, u)
    \/ \E u \in UserIds : fetchUserProfile(u)
    \/ \E s \in Slots : ServeProfileQuery(s)
    \/ \E s \in Slots : FetchAfterProfile(s)
    \/ \E s \in Slots : ServeMealLogQuery(s)
    \/ \E s \in Slots : FetchAfterMealLog(s)
    \/ incrementTrackCaloriesUsage
    \/ \E a \in Amounts : addCredits(a)
    \/ useCreditForScan
    \/ \E b \in BOOLEAN : setPremium(b)
    \/ \E s \in Slots : ServeUpdate(s)
    \/ \E s \in Slots : UpdateReturn(s)
    \/ \E m \in MealItems : addMealToLog(m)
    \/ \E s \in Slots : ServeInsert(s)
    \/ \E s \in Slots : AddMealReturn(s)

Spec == Init /\ [][Next]_vars

\* The data service answers every request it was sent, and the event loop runs
\* every continuation whose await has resolved.
Fairness ==
    \A s \in Slots :
        /\ WF_vars(ServeProfileQuery(s))
        /\ WF_vars(FetchAfterProfile(s))
        /\ WF_vars(ServeMealLogQuery(s))
        /\ WF_vars(FetchAfterMealLog(s))

FairSpec == Spec /\ Fairness

\* ---- the derived values alone (lines 142-145) ------------------------------
\* The hook renders with a user state drawn from TableUsers: every combination
\* of the three fields the derived values read, each present or absent.
TableCredits == {-1, 0, 1, 2, 3}
TableUsage   == {0, 5, MAX_FREE_SCANS - 1, MAX_FREE_SCANS, MAX_FREE_SCANS + 1,
                 MAX_FREE_SCANS + 2}

OptionalField(f, values) == {<< >>} \cup {[g \in {f} |-> v] : v \in values}

TableUsers ==
    {Spread(Spread(Spread([id |-> "u1", mealLog |-> << >>], p), c), t) :
        p \in OptionalField("is_premium", BOOLEAN),
        c \in OptionalField("credits", TableCredits),
        t \in OptionalField("track_calories_usage", TableUsage)} \cup {Null}

TableInit ==
    /\ user \in TableUsers
    /\ loading = FALSE
    /\ error = None
    /\ session = None
    /\ initPc = "done"
    /\ profiles = [i \in UserIds |-> Null]
    /\ meal_logs = << >>
    /\ now = 1
    /\ tasks = [s \in Slots |-> Idle]
    /\ mounted = TRUE
    /\ subscriptions = Subscribe(<< >>)
    /\ staleInits = 0
    /\ nAuth = 0
    /\ nCalls = 0
    /\ negAdd = FALSE
    /\ ledger = Ledger0
    /\ returned = NoReturn

\* setUser(u) and the render that follows: lines 142-145 are evaluated on u
Render(u) ==
    /\ u # user
    /\ user' = u
    /\ UNCHANGED <<loading, error, session, initPc, profiles, meal_logs, now, tasks,
                   mounted, subscriptions, staleInits, nAuth, nCalls, negAdd, ledger, returned>>

TableNext == \E u \in TableUsers : Render(u)

TableSpec == TableInit /\ [][TableNext]_vars

\* ---- properties --------------------------------------------------------------

\* C1: in every reachable state at most one of canUseForFree, canUseWithCredits
\* and canUseAsPremium is true.
C1_FlagsMutuallyExclusive ==
    /\ ~(canUseForFree /\ canUseWithCredits)
    /\ ~(canUseForFree /\ canUseAsPremium)
    /\ ~(canUseWithCredits /\ canUseAsPremium)

\* a premium user who also holds credits: only the premium flag is up
C1_Witness ==
    /\ user # Null
    /\ canUseAsPremium
    /\ CreditsPositive(user)
    /\ returned.op \in {"setPremium", "addCredits"}

\* C2: a Profile Fetch that was awaiting the data service when SIGNED_OUT was
\* handled (and no SIGNED_IN since) leaves user null when it completes.
C2_NoResurrectionAfterSignOut ==
    [][\A s \in Slots :
          (tasks[s].op = "fetch" /\ tasks[s].soPending /\ tasks'[s] = Idle)
              => user' = Null]_vars

NonNegative(u) ==
    /\ Has(u, "credits") => u.credits >= 0
    /\ Has(u, "track_calories_usage") => u.track_calories_usage >= 0

\* C3 as stated: whenever user is non-null, credits and track_calories_usage
\* are non-negative, whatever amounts addCredits is given.
C3_NeverNegative == user # Null => NonNegative(user)

\* C3 as amended: credits and track_calories_usage of a non-null user are
\* non-negative as long as no addCredits(amount) was invoked with
\* (credits or 0) + amount < 0.
C3_NeverNegativeUnlessOverdrawn ==
    (~negAdd /\ user # Null) => NonNegative(user)

\* addCredits(-1) on a balance of 1 has come back: the balance is 0, not below
C3_Witness ==
    /\ ~negAdd
    /\ user # Null
    /\ returned.op = "addCredits" /\ returned.data # Null
    /\ returned.data.credits = 0
    /\ user.credits = 0

\* C4: whenever user is non-null, user.mealLog is in descending order of
\* scanned_at, also when inserts complete in another order than they started.
C4_MealLogDescending ==
    (user # Null /\ Has(user, "mealLog")) => IsSortedDesc(user.mealLog)

\* the slot in which the step just taken started an updateProfile for caller
Issued(caller, s) ==
    /\ tasks[s] = Idle
    /\ tasks'[s].op = "update"
    /\ tasks'[s].pc = "req"
    /\ tasks'[s].caller = caller

HookStateUnchanged == UNCHANGED <<user, loading, error>>

NothingSent == UNCHANGED <<tasks, profiles, meal_logs>>

\* C5: useCreditForScan with a user whose credits <= 0 returns false, sends
\* no update and leaves user, loading and error as they are; with credits
\* c > 0 it sends credits = c - 1, and once that update has succeeded it returns
\* true and user.credits is c - 1.
C5_UseCreditForScan ==
    [][/\ (useCreditForScan /\ user # Null /\ Has(user, "credits") /\ user.credits <= 0)
           => /\ returned' = Return("useCreditForScan", "false", Null)
              /\ HookStateUnchanged
              /\ NothingSent
       /\ (useCreditForScan /\ user # Null /\ Has(user, "credits") /\ user.credits > 0)
           => \E s \in Slots :
                 /\ Issued("useCreditForScan", s)
                 /\ tasks'[s].updates.credits = user.credits - 1
       /\ \A s \in Slots :
             (UpdateReturn(s) /\ tasks[s].caller = "useCreditForScan"
                              /\ tasks[s].resp.error = Null)
                 => /\ returned'.op = "useCreditForScan" /\ returned'.ret = "true"
                    /\ user'.credits = tasks[s].updates.credits]_vars

\* a credit was added, then spent: useCreditForScan returned true, balance 0
C5_Witness ==
    /\ returned.op = "useCreditForScan" /\ returned.ret = "true"
    /\ returned.data # Null
    /\ user # Null /\ Has(user, "credits") /\ user.credits = 0
    /\ nCalls = 2

\* C6: when the update sent by useCreditForScan fails, useCreditForScan still
\* returns true, user is left as it was and error is the failure message.
C6_FailedUpdateReportsSuccess ==
    [][\A s \in Slots :
          (UpdateReturn(s) /\ tasks[s].caller = "useCreditForScan"
                           /\ tasks[s].resp.error # Null)
              => /\ returned'.op = "useCreditForScan" /\ returned'.ret = "true"
                 /\ user' = user
                 /\ error' = tasks[s].resp.error.message]_vars

\* a user holding a credit whose useCreditForScan came back true on a failed update
C6_Witness ==
    /\ returned = Return("useCreditForScan", "true", Null)
    /\ error = UpdateFailed.message
    /\ user # Null /\ Has(user, "credits") /\ user.credits > 0

\* the free quota applies to u: a user, not premium, no credits, below the cap
FreeQuotaApplies(u) ==
    /\ u # Null
    /\ ~(Has(u, "is_premium") /\ u.is_premium)
    /\ ~(Has(u, "credits") /\ u.credits > 0)
    /\ Has(u, "track_calories_usage") /\ u.track_calories_usage < MAX_FREE_SCANS

UsageCapped ==
    /\ (user # Null /\ Has(user, "track_calories_usage"))
           => user.track_calories_usage <= MAX_FREE_SCANS
    /\ \A i \in UserIds :
           profiles[i] # Null => profiles[i].track_calories_usage <= MAX_FREE_SCANS
    /\ \A s \in Slots :
           (tasks[s].op = "update" /\ Has(tasks[s].updates, "track_calories_usage"))
               => tasks[s].updates.track_calories_usage <= MAX_FREE_SCANS

\* C7: incrementTrackCaloriesUsage sends an update of track_calories_usage to
\* its current value plus one exactly when the user is non-premium, holds no
\* credits and is below MAX_FREE_SCANS; otherwise it sends nothing and changes
\* nothing; track_calories_usage never exceeds MAX_FREE_SCANS.
C7_IncrementOnlyBelowCap ==
    [][/\ incrementTrackCaloriesUsage
           => IF FreeQuotaApplies(user)
              THEN \E s \in Slots :
                      /\ Issued("incrementTrackCaloriesUsage", s)
                      /\ tasks'[s].updates.track_calories_usage
                            = user.track_calories_usage + 1
              ELSE HookStateUnchanged /\ NothingSent
       /\ UsageCapped']_vars

\* an increment from 9 has come back: the user is at the cap
C7_Witness ==
    /\ returned.op = "incrementTrackCaloriesUsage" /\ returned.data # Null
    /\ user # Null /\ user.track_calories_usage = MAX_FREE_SCANS
    /\ ~IsPremium(user) /\ ~CreditsPositive(user)

\* C8: when the update of updateProfile or the insert of addMealToLog fails,
\* the operation returns null, error is the failure message, and user and
\* loading are left exactly as they were.
C8_FailedMutationLeavesUser ==
    [][/\ \A s \in Slots :
             (UpdateReturn(s) /\ tasks[s].resp.error # Null)
                 => /\ returned'.data = Null
                    /\ error' = tasks[s].resp.error.message
                    /\ UNCHANGED <<user, loading>>
       /\ \A s \in Slots :
             (AddMealReturn(s) /\ tasks[s].resp.error # Null)
                 => /\ returned' = Return("addMealToLog", "null", Null)
                    /\ error' = tasks[s].resp.error.message
                    /\ UNCHANGED <<user, loading>>]_vars

\* a loaded user whose insert failed
C8_Witness ==
    /\ returned = Return("addMealToLog", "null", Null)
    /\ error = InsertFailed.message
    /\ user # Null /\ Has(user, "mealLog")

\* the step just taken completed the fetch in slot s
FetchCompletes(s) == tasks[s].op = "fetch" /\ tasks'[s] = Idle

\* C9: every Profile Fetch whose requests are answered completes, and at the
\* step that completes it loading is false, whatever the outcome.
C9_FetchCompletesNotLoading ==
    /\ \A s \in Slots : (tasks[s].op = "fetch") ~> (tasks[s] = Idle)
    /\ [][\A s \in Slots : FetchCompletes(s) => loading' = FALSE]_vars

\* a fetch that ended in the catch block: error set, loading off
C9_Witness ==
    /\ returned.op = "fetchUserProfile"
    /\ error = MealLogFailed.message
    /\ loading = FALSE
    /\ user = Null

\* C10: a Profile Fetch run in isolation ends with: 'no rows' -> user null
\* and error null; any other failure of either query -> user null and error
\* the failure message; both queries answered -> user is the profile plus
\* mealLog equal to the fetched entries, and error null.
C10_FetchOutcome ==
    [][\A s \in Slots :
          (FetchCompletes(s) /\ tasks[s].isolated)
              => LET r == tasks[s].resp
                 IN  IF r.error # Null /\ r.error.code = "PGRST116"
                     THEN user' = Null /\ error' = None
                     ELSE IF r.error # Null
                     THEN user' = Null /\ error' = r.error.message
                     ELSE /\ tasks[s].pc = "mealsResp"
                          /\ user' # Null
                          /\ DOMAIN user' = (DOMAIN tasks[s].profile) \cup {"mealLog"}
                          /\ \A f \in DOMAIN tasks[s].profile : user'[f] = tasks[s].profile[f]
                          /\ user'.mealLog = r.data
                          /\ error' = None]_vars

\* nothing but the fetch of initializeUser has run, and it loaded the profile
C10_Witness ==
    /\ returned.op = "fetchUserProfile"
    /\ nCalls = 0 /\ nAuth = 0 /\ initPc = "done" /\ Len(subscriptions) = 1
    /\ user # Null /\ Has(user, "mealLog") /\ user.id = "u1"
    /\ error = None

\* C11: the auth subscription is created when the hook starts and released
\* exactly once at teardown or re-initialization: at most one subscription is
\* live (the one of the last effect run, while mounted), none is live after
\* unmounting, and none is released twice.
C11_SubscriptionReleasedOnce ==
    /\ Cardinality(LiveSubscriptions) <= 1
    /\ mounted => LiveSubscriptions = {Len(subscriptions)}
    /\ ~mounted => LiveSubscriptions = {}
    /\ \A k \in 1..Len(subscriptions) :
          /\ subscriptions[k].unsubscribed <= 1
          /\ ~subscriptions[k].live => subscriptions[k].unsubscribed = 1

\* the effect ran twice and the component has unmounted: both released once
C11_Witness ==
    /\ ~mounted
    /\ Len(subscriptions) = MaxEffects
    /\ \A k \in 1..Len(subscriptions) :
          ~subscriptions[k].live /\ subscriptions[k].unsubscribed = 1

\* the response of the task has arrived: its continuation is what runs next
Responded(t) == t.op # "idle" /\ t.pc \in {"profileResp", "mealsResp", "resp"}

\* C12: whenever an operation that writes user completes, overlapping with
\* others or not and whichever started first, user reflects its write (so
\* after two overlapping ones the last to complete wins); a task leaves the
\* pool only through its own continuation: none in flight is cancelled.
C12_LastCompletionWins ==
    [][\A s \in Slots :
          /\ (UpdateReturn(s) /\ tasks[s].resp.error = Null)
                => \A f \in DOMAIN tasks[s].resp.data :
                      Has(user', f) /\ user'[f] = tasks[s].resp.data[f]
          /\ FetchCompletes(s)
                => IF tasks[s].resp.error = Null
                   THEN /\ user' # Null
                        /\ \A f \in DOMAIN tasks[s].profile : user'[f] = tasks[s].profile[f]
                        /\ user'.mealLog = tasks[s].resp.data
                   ELSE user' = Null
          /\ (tasks[s] # Idle /\ tasks'[s] = Idle)
                => /\ Responded(tasks[s])
                   /\ \A r \in Slots \ {s} : tasks[r] # Idle => tasks'[r] # Idle]_vars

\* two addCredits overlapped; the one started first (updated_at 1) completed
\* last, after the data service had applied the other (updated_at 2): user
\* carries the first one's row
C12_Witness ==
    /\ FreeSlots = Slots /\ nCalls = 2
    /\ returned.op = "addCredits" /\ returned.data # Null
    /\ returned.data.updated_at = 1
    /\ profiles["u1"].updated_at = 2
    /\ user # Null /\ user.updated_at = 1 /\ user.credits = returned.data.credits
    /\ user.credits # profiles["u1"].credits

\* a Profile Fetch starts in this step: a free slot receives a fetch whose
\* profile query is pending
FetchStarts ==
    \E s \in Slots : tasks[s] = Idle /\ tasks'[s] # Idle
                      /\ tasks'[s].op = "fetch" /\ tasks'[s].pc = "profile"

\* C13: error goes from a message to null only in a step that starts a
\* Profile Fetch; a successful mutation and an auth event that starts no fetch
\* (SIGNED_OUT included) leave a message that was set in place.
C13_ErrorClearedOnlyByFetchStart ==
    [][/\ (error # None /\ error' = None) => FetchStarts
       /\ \A s \in Slots :
             ((UpdateReturn(s) \/ AddMealReturn(s)) /\ tasks[s].resp.error = Null)
                => error' = error
       /\ (nAuth' = nAuth + 1 /\ ~FetchStarts) => error' = error]_vars

\* a message is set (an earlier insert failed) and an addMealToLog has just
\* succeeded: the message is still there
C13_Witness ==
    /\ error = InsertFailed.message
    /\ returned.op = "addMealToLog" /\ returned.data # Null
    /\ user # Null /\ Len(user.mealLog) = 1

\* a Profile Fetch for userId starts in this step
FetchStartsFor(userId) ==
    \E s \in Slots : tasks[s] = Idle /\ tasks'[s] # Idle
                      /\ tasks'[s].op = "fetch" /\ tasks'[s].pc = "profile"
                      /\ tasks'[s].uid = userId

\* C14: the listener starts a Profile Fetch for the session user's id on a
\* SIGNED_IN that carries one; on SIGNED_OUT it sets user to null, starts no
\* fetch and leaves loading and error; on anything else (SIGNED_IN without a
\* session user included) it starts no fetch and leaves user, loading, error.
C14_SessionChangeHandling ==
    [][\A e \in AuthEvents, u \in UserIds \cup {None} :
          onAuthStateChange(e, u) =>
             IF e = "SIGNED_IN" /\ u # None
             THEN FetchStartsFor(u) /\ loading' /\ error' = None /\ user' = user
             ELSE IF e = "SIGNED_OUT"
             THEN user' = Null /\ ~FetchStarts /\ UNCHANGED <<loading, error>>
             ELSE ~FetchStarts /\ UNCHANGED <<user, loading, error>>]_vars

\* getCurrentUser() has not resolved and no operation was invoked, yet a fetch
\* for the session user is pending: the SIGNED_IN handler started it
C14_Witness ==
    /\ nAuth = 1 /\ nCalls = 0 /\ initPc = "getCurrentUser" /\ staleInits = 0
    /\ session # None /\ loading
    /\ \E s \in Slots : /\ tasks[s].op = "fetch" /\ tasks[s].pc = "profile"
                        /\ tasks[s].uid = session

\* C15: the derived values equal the decision table. A field the user state
\* lacks counts as 0 (credits, track_calories_usage) or not premium.
C15_DecisionTable ==
    IF user = Null
    THEN /\ remainingFreeScans = 0
         /\ ~canUseAsPremium /\ ~canUseWithCredits /\ ~canUseForFree
    ELSE LET premium == "is_premium" \in DOMAIN user /\ user.is_premium
             credits == IF "credits" \in DOMAIN user THEN user.credits ELSE 0
             usage   == IF "track_calories_usage" \in DOMAIN user
                        THEN user.track_calories_usage ELSE 0
             left    == IF usage >= 10 THEN 0 ELSE 10 - usage
         IN  /\ remainingFreeScans = left
             /\ canUseAsPremium <=> premium
             /\ canUseWithCredits <=> (~premium /\ credits > 0)
             /\ canUseForFree <=> (~premium /\ credits = 0 /\ left > 0)
             /\ premium => (~canUseForFree /\ ~canUseWithCredits)

\* a premium user holding credits and past the free quota
C15_Witness ==
    /\ user # Null /\ canUseAsPremium
    /\ CreditsOrZero(user) = 3
    /\ UsageOrZero(user) = MAX_FREE_SCANS + 2
    /\ remainingFreeScans = 0

\* addMealToLog(m), invoked with a current user, hands the data service an
\* entry with the user's id, the time of the call and no id
EntrySent ==
    \A m \in MealItems :
       (addMealToLog(m) /\ user # Null) =>
          LET t == tasks'[NewSlot]
          IN  /\ t.op = "addMeal" /\ t.pc = "req"
              /\ t.entry.user_id = user.id
              /\ t.entry.scanned_at = now
              /\ ~Has(t.entry, "id")
              /\ t.entry.name = m.name

\* C16: addMealToLog with a current user sends an entry with user_id, the
\* call time as scanned_at and no id; when the insert succeeds the returned
\* record becomes the first element of user.mealLog, the previous entries
\* follow in their order, and the record is returned.
C16_AddMealToLog ==
    [][/\ EntrySent
       /\ \A s \in Slots :
             (AddMealReturn(s) /\ tasks[s].resp.error = Null) =>
                /\ user' # Null /\ Has(user', "mealLog")
                /\ user'.mealLog = <<tasks[s].resp.data>> \o MealLogOrEmpty(user)
                /\ returned' = Return("addMealToLog", "data", tasks[s].resp.data)]_vars

\* the same, for responses that find user still set
C16_AddMealToLogWhileSignedIn ==
    [][/\ EntrySent
       /\ \A s \in Slots :
             (AddMealReturn(s) /\ tasks[s].resp.error = Null /\ user # Null) =>
                /\ user' # Null /\ Has(user', "mealLog")
                /\ user'.mealLog = <<tasks[s].resp.data>> \o MealLogOrEmpty(user)
                /\ returned' = Return("addMealToLog", "data", tasks[s].resp.data)]_vars

\* C17: while every update succeeds and only addCredits and useCreditForScan
\* run (none of them overdrawing the balance), useCreditForScan returns true
\* at most as often as there are credits, initial plus added, and once no
\* update is in flight user.credits is initial plus added minus spent.
C17_NoCreditSpentTwice ==
    (ledger.ok /\ ~negAdd /\ user # Null) =>
       /\ ledger.spent <= InitialCredits + ledger.added
       /\ (\A s \in Slots : tasks[s].op # "update")
             => user.credits = InitialCredits + ledger.added - ledger.spent

\* C18: a user that is not null is a complete SessionState: it carries the
\* profile id and a mealLog sequence, also when the response of an
\* updateProfile or addMealToLog arrives after user was set to null.
C18_UserIsComplete ==
    (mounted /\ user # Null) => (Has(user, "id") /\ Has(user, "mealLog"))

\* C19: loading is true whenever a Profile Fetch is in flight.
C19_LoadingWhileFetching ==
    (mounted /\ \E s \in Slots : tasks[s].op = "fetch") => loading
====
